---- MODULE Spec2Model ----
(***************************************************************************)
(* A model of the spam classifier notebook (src/model.ipynb):              *)
(* processMail, createVocabulary, getFeatureMatrix, the corpus loading     *)
(* cell, the model cells and predictSamples.                               *)
(*                                                                         *)
(* A text is a sequence of one-character strings.  A word (token, stem)    *)
(* is a text too.                                                          *)
(***************************************************************************)
EXTENDS Integers, Sequences, FiniteSets, TLC

VARIABLES
    mail,          \* processMail: the raw text handed in
    clean_mail,    \* processMail: the list it returned
    mpc,           \* processMail: "in" before the call, "out" after it
    stemmer,       \* processMail: the stemmer that PorterStemmer() gives it
    vmails,        \* createVocabulary / getFeatureMatrix: argument mails
    vsize,         \* createVocabulary: argument size
    vvocab,        \* createVocabulary: returned vocab / getFeatureMatrix: argument vocab
    vX,            \* getFeatureMatrix: returned X
    vpc,           \* "in" before the call, "out" after it
    corpus,        \* the files of data/spamassassin, in os.listdir order
    samples,       \* the files of data/samples, by identifier
    cell,          \* the notebook cell that runs next
    idx,           \* loading cell: number of files the loop has passed
    clean_mails,   \* global clean_mails
    labels,        \* global labels
    vocabulary,    \* global vocabulary (Undefined before its cell ran)
    X,             \* global X
    y,             \* global y
    clf,           \* global clf (Undefined before its cell ran)
    stdout,        \* what the last predictSamples call printed
    calls,         \* what the last predictSamples call called, in order
    lastCall       \* the last predictSamples call: its filenames, and whether
                   \* vocabulary and clf existed when it was made

vars == <<mail, clean_mail, mpc, stemmer, vmails, vsize, vvocab, vX, vpc, corpus, samples,
          cell, idx, clean_mails, labels, vocabulary, X, y, clf, stdout,
          calls, lastCall>>

mailVars == <<mail, clean_mail, mpc>>
funVars == <<vmails, vsize, vvocab, vX, vpc>>
pipeVars == <<corpus, samples, cell, idx, clean_mails, labels, vocabulary, X, y,
              clf, stdout, calls, lastCall>>

(***************************************************************************)
(* Bounds of the model.                                                    *)
(***************************************************************************)
\* processMail inputs are concatenations of at most MaxChunks fragments
MaxChunks == 3
\* processMail inputs of SpecSplit: two words of at most MaxLetters letters
\* around one character
MaxLetters == 2
\* createVocabulary / getFeatureMatrix inputs: at most MaxMails mails of at
\* most MaxWords words each, size at most MaxSize
MaxMails == 2
MaxWords == 2
MaxSize == 3
\* getFeatureMatrix: vocab of at most MaxCols words
MaxCols == 2
\* the loading cell: at most MaxCorpus files in data/spamassassin;
\* predictSamples: called with at most MaxBatch filenames
MaxCorpus == 2
MaxBatch == 2

\* VOCAB_SIZE = 4000
VOCAB_SIZE == 4000
\* TRAINING_SET_SIZE = 0.7, in percent
TRAINING_SET_PCT == 70

\* a global name before the cell that assigns it has run (reading it raises
\* NameError), and after
Undefined == [defined |-> FALSE]
Defined(v) == [defined |-> TRUE, value |-> v]

\* a file that open() or read() fails on
Unreadable == [readable |-> FALSE]
Readable(text) == [readable |-> TRUE, text |-> text]

NL == "\n"
SP == " "

(***************************************************************************)
(* Python string and list primitives.                                      *)
(***************************************************************************)
Max(a, b) == IF a >= b THEN a ELSE b
Min(a, b) == IF a <= b THEN a ELSE b

\* s[a:] of Python for a 0-based a; a negative a counts from the end
PySliceFrom(s, a) ==
    LET n == Len(s)
        st == IF a < 0 THEN Max(n + a, 0) ELSE Min(a, n)
    IN  SubSeq(s, st + 1, n)

\* s[:b] of Python for a 0-based b; a negative b counts from the end
PySliceTo(s, b) ==
    LET n == Len(s)
        en == IF b < 0 THEN Max(n + b, 0) ELSE Min(b, n)
    IN  SubSeq(s, 1, en)

\* whether pat occurs in s at 1-based position i
StartsAt(s, pat, i) ==
    /\ i >= 1
    /\ i + Len(pat) - 1 <= Len(s)
    /\ \A k \in 1..Len(pat) : s[i + k - 1] = pat[k]

\* s.find(pat) of Python: the 0-based index of the first occurrence, else -1
PyFind(s, pat) ==
    LET hits == {i \in 1..Len(s) : StartsAt(s, pat, i)}
    IN  IF hits = {} THEN -1
        ELSE (CHOOSE i \in hits : \A j \in hits : i <= j) - 1

Range(f) == {f[i] : i \in DOMAIN f}

\* word in mail, for lists
InList(w, l) == \E i \in 1..Len(l) : l[i] = w

(***************************************************************************)
(* Character classes of the regular expressions of processMail.            *)
(***************************************************************************)
Uppers == <<"A", "B", "C", "D", "E", "F", "G", "H", "I", "J", "K", "L", "M",
            "N", "O", "P", "Q", "R", "S", "T", "U", "V", "W", "X", "Y", "Z">>
Lowers == <<"a", "b", "c", "d", "e", "f", "g", "h", "i", "j", "k", "l", "m",
            "n", "o", "p", "q", "r", "s", "t", "u", "v", "w", "x", "y", "z">>
Digits == {"0", "1", "2", "3", "4", "5", "6", "7", "8", "9"}

UpperSet == Range(Uppers)
LowerSet == Range(Lowers)
\* [a-zA-Z0-9]
AlnumSet == UpperSet \cup LowerSet \cup Digits
\* the characters [^<>] leaves out
AngleSet == {"<", ">"}
\* \s (the vertical tab, which TLA+ strings cannot spell, is left out)
SpaceSet == {" ", "\t", "\n", "\r", "\f"}
\* the character class of the re.split call: the two adjacent string literals
\* '[ @$/#.-:&*+=\[\]?!(){},' and '">_<;%\n\r]' concatenate, so the class holds no
\* single quote; ".-:" is the range from "." to ":", which holds "/" and the
\* digits and does not hold "-"
DelimSet ==
    {" ", "@", "$", "/", "#", ".", ":", "&", "*", "+", "=", "[", "]", "?", "!",
     "(", ")", "{", "}", ",", "\"", ">", "_", "<", ";", "%", "\n", "\r"}
        \cup Digits

IsUpper(c) == c \in UpperSet
IsDigit(c) == c \in Digits
IsAlnum(c) == c \in AlnumSet
IsSpace(c) == c \in SpaceSet
IsDelim(c) == c \in DelimSet

\* the last index of the longest run of characters of S that starts at i
\* (i - 1 when s[i] is not in S)
RunWhile(s, i, S) ==
    LET stops == {k \in i..Len(s) : s[k] \notin S}
    IN  IF stops = {} THEN Len(s)
        ELSE (CHOOSE k \in stops : \A j \in stops : k <= j) - 1

\* the last index of the longest run of characters outside S that starts at i
RunUntil(s, i, S) ==
    LET stops == {k \in i..Len(s) : s[k] \in S}
    IN  IF stops = {} THEN Len(s)
        ELSE (CHOOSE k \in stops : \A j \in stops : k <= j) - 1

\* a faulty variant of lower: the text is left as it came
lowerLeftOut(s) == s

\* mail.lower()
LowerOf == [c \in UpperSet |-> Lowers[CHOOSE k \in 1..Len(Uppers) : Uppers[k] = c]]

LowerChar(c) == IF IsUpper(c) THEN LowerOf[c] ELSE c

lower(s) == [i \in 1..Len(s) |-> LowerChar(s[i])]

(***************************************************************************)
(* The regular expressions: MatchEnd(kind, s, i) is the index of the last  *)
(* character of the match of the pattern at position i, 0 when the pattern *)
(* does not match there.                                                   *)
(***************************************************************************)
HttpPrefix == <<"h", "t", "t", "p", ":", "/", "/">>
HttpsPrefix == <<"h", "t", "t", "p", "s", ":", "/", "/">>

\* '<[^<>]+>'
MatchHtml(s, i) ==
    IF s[i] # "<" THEN 0
    ELSE LET e == RunUntil(s, i + 1, AngleSet)
         IN  IF e >= i + 1 /\ e + 1 <= Len(s) /\ s[e + 1] = ">" THEN e + 1 ELSE 0

\* '[0-9]+'
MatchNumber(s, i) == IF IsDigit(s[i]) THEN RunWhile(s, i, Digits) ELSE 0

\* '(http|https)://[^\s]*'
MatchUrl(s, i) ==
    IF StartsAt(s, HttpPrefix, i) THEN RunUntil(s, i + Len(HttpPrefix), SpaceSet)
    ELSE IF StartsAt(s, HttpsPrefix, i)
         THEN RunUntil(s, i + Len(HttpsPrefix), SpaceSet)
         ELSE 0

\* '[^\s]+@[^\s]+': both runs are greedy, so a match at i runs to the end of
\* the run of non-space characters, and exists when an "@" of the run has a
\* character of the run from i on before it and one after it
MatchEmail(s, i) ==
    IF IsSpace(s[i]) THEN 0
    ELSE LET e == RunUntil(s, i, SpaceSet)
         IN  IF \E k \in (i + 1)..(e - 1) : s[k] = "@" THEN e ELSE 0

\* '[$]+'
MatchDollar(s, i) == IF s[i] = "$" THEN RunWhile(s, i, {"$"}) ELSE 0

MatchEnd(kind, s, i) ==
    CASE kind = "html" -> MatchHtml(s, i)
      [] kind = "number" -> MatchNumber(s, i)
      [] kind = "url" -> MatchUrl(s, i)
      [] kind = "email" -> MatchEmail(s, i)
      [] kind = "dollar" -> MatchDollar(s, i)

\* re.compile(pattern).sub(repl, s), from position i on: the leftmost match is
\* replaced and the scan goes on after it
RECURSIVE SubFrom(_, _, _, _)
SubFrom(kind, repl, s, i) ==
    IF i > Len(s) THEN <<>>
    ELSE LET e == MatchEnd(kind, s, i)
         IN  IF e = 0 THEN <<s[i]>> \o SubFrom(kind, repl, s, i + 1)
             ELSE repl \o SubFrom(kind, repl, s, e + 1)

\* a faulty variant of ReSub: only the leftmost match is replaced, as with
\* count=1
ReSubFirstOnly(kind, repl, s) ==
    LET hits == {i \in 1..Len(s) : MatchEnd(kind, s, i) # 0}
    IN  IF hits = {} THEN s
        ELSE LET i == CHOOSE k \in hits : \A j \in hits : k <= j
             IN  SubSeq(s, 1, i - 1) \o repl
                     \o SubSeq(s, MatchEnd(kind, s, i) + 1, Len(s))

ReSub(kind, repl, s) == SubFrom(kind, repl, s, 1)

NumberWord == <<" ", "n", "u", "m", "b", "e", "r", " ">>
HttpaddrWord == <<" ", "h", "t", "t", "p", "a", "d", "d", "r", " ">>
EmailaddrWord == <<" ", "e", "m", "a", "i", "l", "a", "d", "d", "r", " ">>
DollarWord == <<" ", "d", "o", "l", "l", "a", "r", " ">>

\* re.split(class, s): the pieces between the delimiters, empty ones kept
RECURSIVE SplitFrom(_, _, _)
SplitFrom(s, i, cur) ==
    IF i > Len(s) THEN <<cur>>
    ELSE IF IsDelim(s[i]) THEN <<cur>> \o SplitFrom(s, i + 1, <<>>)
         ELSE SplitFrom(s, i + 1, Append(cur, s[i]))

ReSplit(s) == SplitFrom(s, 1, <<>>)

\* re.compile('[^a-zA-Z0-9]').sub('', word).strip()
CleanWord(word) == SelectSeq(word, IsAlnum)

EndsWith(w, suf) ==
    Len(w) >= Len(suf) /\ SubSeq(w, Len(w) - Len(suf) + 1, Len(w)) = suf

DropLast(w, k) == SubSeq(w, 1, Len(w) - k)

\* stemmer.stem(word) of nltk's PorterStemmer, as far as words over the
\* letters of Fragments and the four placeholder words go: a word of at most
\* two letters is returned as it is, and of the rules only step 1a applies
\* (sses -> ss, ies -> i (ie in a word of four letters), ss -> ss, s -> "")
Stem(word) ==
    IF Len(word) <= 2 THEN word
    ELSE IF EndsWith(word, <<"s", "s", "e", "s">>) THEN DropLast(word, 2)
    ELSE IF EndsWith(word, <<"i", "e", "s">>)
         THEN IF Len(word) = 4 THEN DropLast(word, 1) ELSE DropLast(word, 2)
    ELSE IF EndsWith(word, <<"s", "s">>) THEN word
    ELSE IF EndsWith(word, <<"s">>) THEN DropLast(word, 1)
    ELSE word

\* what PorterStemmer() may construct: nltk's Porter stemmer, or in its place
\* another deterministic stemmer, here a plain suffix stripper that drops a
\* final "s" whatever it leaves of the word
PorterStemmer == "PorterStemmer"
SuffixStripper == "SuffixStripper"
Stemmers == {PorterStemmer, SuffixStripper}

StripSuffix(word) == IF EndsWith(word, <<"s">>) THEN DropLast(word, 1) ELSE word

\* stemmer.stem(word)
stemmer_stem(word) ==
    IF stemmer = PorterStemmer THEN Stem(word) ELSE StripSuffix(word)

(***************************************************************************)
(* processMail, stage by stage.                                            *)
(***************************************************************************)
\* hdrstart = mail.find(chr(10) + chr(10)); mail = mail[hdrstart:]
RemoveHeaders(m) == PySliceFrom(m, PyFind(m, <<NL, NL>>))

\* lower case, then strip HTML
TagStripped(body) == ReSub("html", <<SP>>, lower(body))

\* the four placeholder substitutions, in the order of the code: numbers,
\* URLs, email addresses, "$" signs
Placeholders(t) ==
    LET m3 == ReSub("number", NumberWord, t)
        m4 == ReSub("url", HttpaddrWord, m3)
        m5 == ReSub("email", EmailaddrWord, m4)
    IN  ReSub("dollar", DollarWord, m5)

\* lower case, strip HTML, then the four placeholder substitutions
Substituted(body) == Placeholders(TagStripped(body))

\* the loop over the split words, from the i-th on: the words it hands to
\* the stemmer, which are the cleaned words that are not empty
RECURSIVE CandidateWords(_, _)
CandidateWords(words, i) ==
    IF i > Len(words) THEN <<>>
    ELSE LET word == CleanWord(words[i])
         IN  IF Len(word) > 0 THEN <<word>> \o CandidateWords(words, i + 1)
             ELSE CandidateWords(words, i + 1)

\* the loop over the split words: each candidate is stemmed and whatever the
\* stemmer returns is appended
StemWords(words, i) ==
    LET candidates == CandidateWords(words, i)
    IN  [k \in 1..Len(candidates) |-> stemmer_stem(candidates[k])]

\* the tokens of a body: everything processMail does after the header strip
TokensOf(body) == StemWords(ReSplit(Substituted(body)), 1)

processMail(m) == TokensOf(RemoveHeaders(m))


(***************************************************************************)
(* createVocabulary.  all_words_w_count is a dict, which keeps its keys in *)
(* insertion order: a sequence of <<word, count>> pairs.                   *)
(***************************************************************************)
\* a faulty variant of CountWord: every occurrence is entered as a new key
CountWordNoMerge(counts, word) == Append(counts, <<word, 1>>)

\* all_words_w_count[word] += 1, or = 1 when the key is new
CountWord(counts, word) ==
    IF \E k \in 1..Len(counts) : counts[k][1] = word
    THEN [k \in 1..Len(counts) |->
            IF counts[k][1] = word THEN <<word, counts[k][2] + 1>> ELSE counts[k]]
    ELSE Append(counts, <<word, 1>>)

\* for word in mail
RECURSIVE CountMail(_, _, _)
CountMail(counts, m, i) ==
    IF i > Len(m) THEN counts ELSE CountMail(CountWord(counts, m[i]), m, i + 1)

\* for mail in mails
RECURSIVE CountMails(_, _, _)
CountMails(counts, mails, i) ==
    IF i > Len(mails) THEN counts
    ELSE CountMails(CountMail(counts, mails[i], 1), mails, i + 1)

\* a faulty variant of InsertDesc: an ascending sort that is then reversed, which turns
\* the order of equal counts around
InsertDescTiesReversed(sorted, item) ==
    LET before == SelectSeq(sorted, LAMBDA it : it[2] > item[2])
        after == SelectSeq(sorted, LAMBDA it : it[2] <= item[2])
    IN  before \o <<item>> \o after

\* where sorted(..., reverse=True) puts an item among those already placed:
\* after every item whose count is at least its own (the sort is stable, and
\* stays so under reverse=True)
InsertDesc(sorted, item) ==
    LET before == SelectSeq(sorted, LAMBDA it : it[2] >= item[2])
        after == SelectSeq(sorted, LAMBDA it : it[2] < item[2])
    IN  before \o <<item>> \o after

\* sorted(all_words_w_count.items(), key=lambda item: item[1], reverse=True)
RECURSIVE SortedDesc(_, _, _)
SortedDesc(sorted, items, i) ==
    IF i > Len(items) THEN sorted
    ELSE SortedDesc(InsertDesc(sorted, items[i]), items, i + 1)

createVocabulary(mails, size) ==
    LET all_words_w_count == CountMails(<<>>, mails, 1)
        items == SortedDesc(<<>>, all_words_w_count, 1)
        sorted_words == [k \in 1..Len(items) |-> items[k][1]]
    IN  PySliceTo(sorted_words, size)

(***************************************************************************)
(* getFeatureMatrix: X = np.zeros((m, n)), then X[i, j] = word in mail.    *)
(* A numpy array is its shape and its rows.                                *)
(***************************************************************************)
\* np.zeros((m, n))
Zeros(m, n) == [shape |-> <<m, n>>, data |-> [i \in 1..m |-> [j \in 1..n |-> 0]]]

\* a faulty variant of Cell: the word is compared with the first word of the mail only
CellFirstWordOnly(m, word) == IF Len(m) > 0 /\ m[1] = word THEN 1 ELSE 0

\* word in mail, stored into a float array: 1 or 0
Cell(m, word) == IF InList(word, m) THEN 1 ELSE 0

\* for j, word in enumerate(vocab): X[i, j] = word in mail
RECURSIVE FillRow(_, _, _, _, _)
FillRow(Xm, i, m, vocab, j) ==
    IF j > Len(vocab) THEN Xm
    ELSE FillRow([Xm EXCEPT !.data[i][j] = Cell(m, vocab[j])], i, m, vocab, j + 1)

\* for i, mail in enumerate(mails)
RECURSIVE FillRows(_, _, _, _)
FillRows(Xm, mails, vocab, i) ==
    IF i > Len(mails) THEN Xm
    ELSE FillRows(FillRow(Xm, i, mails[i], vocab, 1), mails, vocab, i + 1)

getFeatureMatrix(mails, vocab) ==
    FillRows(Zeros(Len(mails), Len(vocab)), mails, vocab, 1)

(***************************************************************************)
(* The inputs of processMail: texts built from a few fragments.            *)
(***************************************************************************)
Fragments ==
    { <<"a">>, <<"b">>, <<"s">>, <<"A">>, <<"1">>, <<" ">>, <<NL>>, <<NL, NL>>,
      <<"-">>, <<"'">>, <<"@">>, <<"$">>, <<"<">>, <<">">>, HttpPrefix }

RECURSIVE Concat(_)
Concat(parts) == IF parts = <<>> THEN <<>> ELSE Head(parts) \o Concat(Tail(parts))

Texts(n) == UNION { {Concat(p) : p \in [1..k -> Fragments]} : k \in 0..n }

\* the variables of the other specifications, at rest
FunIdle ==
    /\ vmails = <<>>
    /\ vsize = 0
    /\ vvocab = <<>>
    /\ vX = Undefined
    /\ vpc = "idle"

MailIdle ==
    /\ mail = <<>>
    /\ clean_mail = <<>>
    /\ mpc = "idle"

PipeIdle ==
    /\ corpus = <<>>
    /\ samples = <<>>
    /\ cell = "idle"
    /\ idx = 0
    /\ clean_mails = Undefined
    /\ labels = Undefined
    /\ vocabulary = Undefined
    /\ X = Undefined
    /\ y = Undefined
    /\ clf = Undefined
    /\ stdout = <<>>
    /\ calls = <<>>
    /\ lastCall = [called |-> FALSE]

(***************************************************************************)
(* SpecMail: processMail applied to every text of at most MaxChunks        *)
(* fragments.                                                              *)
(***************************************************************************)
InitMail ==
    /\ mail \in Texts(MaxChunks)
    /\ clean_mail = <<>>
    /\ mpc = "in"
    /\ stemmer = PorterStemmer
    /\ FunIdle
    /\ PipeIdle

CallProcessMail ==
    /\ mpc = "in"
    /\ clean_mail' = processMail(mail)
    /\ mpc' = "out"
    /\ UNCHANGED <<mail, stemmer, funVars, pipeVars>>

NextMail == CallProcessMail

SpecMail == InitMail /\ [][NextMail]_vars

(***************************************************************************)
(* SpecSplit: processMail applied to every text that has, after an empty   *)
(* header, two words of at most MaxLetters letters around one of the       *)
(* characters written in the pattern of the re.split call.                 *)
(***************************************************************************)
Letters == {"a", "b"}

LetterWords == UNION { [1..k -> Letters] : k \in 1..MaxLetters }

\* the characters written between the brackets of the re.split pattern
PatternChars ==
    {" ", "@", "$", "/", "#", ".", "-", ":", "&", "*", "+", "=", "[", "]", "?",
     "!", "(", ")", "{", "}", ",", "'", "\"", ">", "_", "<", ";", "%", "\n", "\r"}

InitSplit ==
    /\ \E u \in LetterWords, v \in LetterWords, d \in PatternChars :
          mail = <<NL, NL>> \o u \o <<d>> \o v
    /\ clean_mail = <<>>
    /\ mpc = "in"
    /\ stemmer = PorterStemmer
    /\ FunIdle
    /\ PipeIdle

SpecSplit == InitSplit /\ [][NextMail]_vars

(***************************************************************************)
(* SpecBody: processMail applied, with each of the stemmers, to every text *)
(* that has after an empty header a body of at most MaxChunks fragments,   *)
(* among them digits, "@", "$" and the two URL prefixes.                   *)
(***************************************************************************)
BodyFragments ==
    { <<"a">>, <<"s">>, <<"1">>, <<" ">>, <<NL>>, <<".">>, <<"@">>, <<"$">>,
      HttpPrefix, HttpsPrefix }

Bodies(n) == UNION { {Concat(p) : p \in [1..k -> BodyFragments]} : k \in 0..n }

InitBody ==
    /\ \E body \in Bodies(MaxChunks) : mail = <<NL, NL>> \o body
    /\ clean_mail = <<>>
    /\ mpc = "in"
    /\ stemmer \in Stemmers
    /\ FunIdle
    /\ PipeIdle

SpecBody == InitBody /\ [][NextMail]_vars


(***************************************************************************)
(* SpecVocab: createVocabulary applied to every corpus of at most MaxMails *)
(* mails of at most MaxWords stems and every size from -1 to MaxSize.      *)
(* SpecMatrix: getFeatureMatrix applied to every such list of mails and    *)
(* every vocab of at most MaxCols words.                                   *)
(***************************************************************************)
Stems == { <<"a">>, <<"b">> }
\* a word no mail holds
Stranger == <<"c">>

SeqsUpTo(S, n) == UNION { [1..k -> S] : k \in 0..n }

MailLists == SeqsUpTo(SeqsUpTo(Stems, MaxWords), MaxMails)

InitVocab ==
    /\ vmails \in MailLists
    /\ vsize \in -1..MaxSize
    /\ vvocab = <<>>
    /\ vX = Undefined
    /\ vpc = "in"
    /\ stemmer = PorterStemmer
    /\ MailIdle
    /\ PipeIdle

CallCreateVocabulary ==
    /\ vpc = "in"
    /\ vvocab' = createVocabulary(vmails, vsize)
    /\ vpc' = "out"
    /\ UNCHANGED <<vmails, vsize, vX, mailVars, stemmer, pipeVars>>

NextVocab == CallCreateVocabulary

SpecVocab == InitVocab /\ [][NextVocab]_vars

InitMatrix ==
    /\ vmails \in MailLists
    /\ vsize = 0
    /\ vvocab \in SeqsUpTo(Stems \cup {Stranger}, MaxCols)
    /\ vX = Undefined
    /\ vpc = "in"
    /\ stemmer = PorterStemmer
    /\ MailIdle
    /\ PipeIdle

CallGetFeatureMatrix ==
    /\ vpc = "in"
    /\ vX' = getFeatureMatrix(vmails, vvocab)
    /\ vpc' = "out"
    /\ UNCHANGED <<vmails, vsize, vvocab, mailVars, stemmer, pipeVars>>

NextMatrix == CallGetFeatureMatrix

SpecMatrix == InitMatrix /\ [][NextMatrix]_vars


(***************************************************************************)
(* The notebook.  Its files: data/spamassassin (corpus, in the order the   *)
(* two os.listdir loops pass them, each with the is_spam of its            *)
(* sub-directory) and data/samples.                                        *)
(***************************************************************************)
\* header "s", body "a a"
TextA == <<"s", NL, NL, "a", " ", "a">>
\* no header lines, body "B"
TextB == <<NL, NL, "B">>

Files == {Unreadable, Readable(TextA), Readable(TextB)}

CorpusEntries == [is_spam : BOOLEAN, file : Files]

SampleIds == {"s1", "s2", "s3"}

SampleDir == [id \in SampleIds |->
                CASE id = "s1" -> Unreadable
                  [] id = "s2" -> Readable(TextA)
                  [] id = "s3" -> Readable(TextB)]

\* what predictSamples prints
Line(kind, id) == [kind |-> kind, id |-> id]
NothingToPredict == Line("Nothing to predict.", "")
CouldNotRead(id) == Line("Could not read", id)
NoVocabulary == Line("No vocabulary has been created.", "")
NoModel == Line("No model has been trained.", "")
LabelLine(id, pred) == Line(IF pred = 1 THEN "is spam." ELSE "is not spam.", id)

\* what predictSamples calls
Call(op, arg) == [op |-> op, arg |-> arg]

\* the notebook before its loading cell, over a given data/spamassassin
NotebookStart(dirs) ==
    /\ corpus \in dirs
    /\ samples = SampleDir
    /\ cell = "start"
    /\ idx = 0
    /\ clean_mails = Undefined
    /\ labels = Undefined
    /\ vocabulary = Undefined
    /\ X = Undefined
    /\ y = Undefined
    /\ clf = Undefined
    /\ stdout = <<>>
    /\ calls = <<>>
    /\ lastCall = [called |-> FALSE]
    /\ stemmer = PorterStemmer
    /\ MailIdle
    /\ FunIdle

Spam(text) == [is_spam |-> TRUE, file |-> Readable(text)]
Ham(text) == [is_spam |-> FALSE, file |-> Readable(text)]
Broken(is_spam) == [is_spam |-> is_spam, file |-> Unreadable]

\* the corpora the calls of predictSamples are checked over: none, one class
\* only, two classes around a file that cannot be read, the same text under
\* both labels, and four files (of which the split takes one away)
Corpora ==
    { <<>>,
      <<Spam(TextA), Spam(TextA)>>,
      <<Ham(TextB), Broken(TRUE), Spam(TextA)>>,
      <<Spam(TextB), Ham(TextB)>>,
      <<Spam(TextA), Ham(TextB), Ham(TextA), Spam(TextB)>> }

Init == NotebookStart(Corpora)

\* every data/spamassassin of at most MaxCorpus files
InitLoad == NotebookStart(SeqsUpTo(CorpusEntries, MaxCorpus))

(***************************************************************************)
(* The loading cell.                                                       *)
(***************************************************************************)
\* clean_mails = []; labels = []
BeginLoad ==
    /\ cell = "start"
    /\ clean_mails' = Defined(<<>>)
    /\ labels' = Defined(<<>>)
    /\ idx' = 0
    /\ cell' = "load"
    /\ UNCHANGED <<corpus, samples, vocabulary, X, y, clf, stdout, calls, lastCall,
                   mailVars, stemmer, funVars>>

\* clean_mails after one pass of the loop body: open or read raising leaves
\* the try block before the append
MailsAfter(mails, entry) ==
    IF entry.file.readable THEN Append(mails, processMail(entry.file.text))
    ELSE mails

\* a faulty variant of LabelsAfter: the label is appended before the file is read
LabelsAfterAlways(labs, entry) == Append(labs, IF entry.is_spam THEN 1 ELSE 0)

\* labels after one pass of the loop body
LabelsAfter(labs, entry) ==
    IF entry.file.readable THEN Append(labs, IF entry.is_spam THEN 1 ELSE 0)
    ELSE labs

\* one pass of "for mail_id in os.listdir(sub_dir)"
LoadMail ==
    /\ cell = "load"
    /\ idx < Len(corpus)
    /\ clean_mails' = Defined(MailsAfter(clean_mails.value, corpus[idx + 1]))
    /\ labels' = Defined(LabelsAfter(labels.value, corpus[idx + 1]))
    /\ idx' = idx + 1
    /\ UNCHANGED <<corpus, samples, cell, vocabulary, X, y, clf, stdout, calls,
                   lastCall, mailVars, stemmer, funVars>>

(***************************************************************************)
(* The cells "Model variables", "Train / Cross-Validation set split" and   *)
(* "Model training".                                                       *)
(***************************************************************************)
ModelVariables ==
    /\ cell = "load"
    /\ idx = Len(corpus)
    /\ LET vocab == createVocabulary(clean_mails.value, VOCAB_SIZE)
       IN  /\ vocabulary' = Defined(vocab)
           /\ X' = Defined(getFeatureMatrix(clean_mails.value, vocab))
    /\ y' = Defined(labels.value)
    /\ cell' = "split"
    /\ UNCHANGED <<corpus, samples, idx, clean_mails, labels, clf, stdout, calls,
                   lastCall, mailVars, stemmer, funVars>>

\* np.delete(a, rand_indices): the entries at the other places, in order
RECURSIVE DeleteAt(_, _, _)
DeleteAt(a, gone, i) ==
    IF i > Len(a) THEN <<>>
    ELSE (IF i \in gone THEN <<>> ELSE <<a[i]>>) \o DeleteAt(a, gone, i + 1)

\* mval = int(m * (1 - TRAINING_SET_SIZE))
Mval(m) == (m * (100 - TRAINING_SET_PCT)) \div 100

\* rand_indices = np.random.choice(m, mval, replace=False), then the deletes
Split ==
    /\ cell = "split"
    /\ \E rand_indices \in SUBSET (1..Len(y.value)) :
        /\ Cardinality(rand_indices) = Mval(Len(y.value))
        /\ X' = Defined([shape |-> <<X.value.shape[1] - Mval(Len(y.value)),
                                    X.value.shape[2]>>,
                         data |-> DeleteAt(X.value.data, rand_indices, 1)])
        /\ y' = Defined(DeleteAt(y.value, rand_indices, 1))
    /\ cell' = "train"
    /\ UNCHANGED <<corpus, samples, idx, clean_mails, labels, vocabulary, clf,
                   stdout, calls, lastCall, mailVars, stemmer, funVars>>

\* clf.fit(X, y) of LinearSVC raises on no sample, on no feature and on
\* labels of one class only
FitRaises(Xm, ym) ==
    \/ Xm.shape[1] = 0
    \/ Xm.shape[2] = 0
    \/ Cardinality(Range(ym)) < 2

\* the models fit may return for n features: any weights and intercept
FittedModels(n) ==
    [fitted : {TRUE}, coef : [1..n -> {-1, 1}], intercept : {-1, 0}]

Unfitted == [fitted |-> FALSE]

\* clf = svm.LinearSVC(dual=(m<n)); clf.fit(X, y): clf is bound before fit
\* runs, so a fit that raises leaves an unfitted classifier behind
Train ==
    /\ cell = "train"
    /\ \/ /\ FitRaises(X.value, y.value)
          /\ clf' = Defined(Unfitted)
       \/ /\ ~FitRaises(X.value, y.value)
          /\ \E model \in FittedModels(X.value.shape[2]) : clf' = Defined(model)
    /\ cell' = "done"
    /\ UNCHANGED <<corpus, samples, idx, clean_mails, labels, vocabulary, X, y,
                   stdout, calls, lastCall, mailVars, stemmer, funVars>>

(***************************************************************************)
(* predictSamples.                                                         *)
(***************************************************************************)
\* the loop over filenames: the 'Could not read' lines it prints
RECURSIVE ReadLines(_, _, _)
ReadLines(dir, filenames, i) ==
    IF i > Len(filenames) THEN <<>>
    ELSE (IF dir[filenames[i]].readable THEN <<>> ELSE <<CouldNotRead(filenames[i])>>)
            \o ReadLines(dir, filenames, i + 1)

\* the loop over filenames: the local clean_mails it builds
RECURSIVE ReadMails(_, _, _)
ReadMails(dir, filenames, i) ==
    IF i > Len(filenames) THEN <<>>
    ELSE (IF dir[filenames[i]].readable
          THEN <<processMail(dir[filenames[i]].text)>> ELSE <<>>)
            \o ReadMails(dir, filenames, i + 1)

\* the loop over filenames: the calls it makes
RECURSIVE ReadCalls(_, _, _)
ReadCalls(dir, filenames, i) ==
    IF i > Len(filenames) THEN <<>>
    ELSE (IF dir[filenames[i]].readable
          THEN <<Call("open", filenames[i]), Call("processMail", filenames[i])>>
          ELSE <<Call("open", filenames[i])>>)
            \o ReadCalls(dir, filenames, i + 1)

\* the decision function of a linear model on one row
RECURSIVE Dot(_, _, _)
Dot(row, coef, j) ==
    IF j > Len(row) THEN 0 ELSE row[j] * coef[j] + Dot(row, coef, j + 1)

\* clf.predict(X) raises on a classifier that is not fitted, on an array with
\* no row or no column, and on a width other than the one it was fitted on
PredictRaises(model, Xm) ==
    \/ ~model.fitted
    \/ Xm.shape[1] = 0
    \/ Xm.shape[2] = 0
    \/ Xm.shape[2] # Len(model.coef)

\* clf.predict(X): one label per row
Predictions(model, Xm) ==
    [i \in 1..Xm.shape[1] |->
        IF model.fitted /\ Dot(Xm.data[i], model.coef, 1) + model.intercept > 0
        THEN 1 ELSE 0]

\* for i, pred in enumerate(predictions): print filenames[i] with its label
OutputLines(filenames, predictions) ==
    [i \in 1..Len(predictions) |-> LabelLine(filenames[i], predictions[i])]

\* a faulty variant of RunBatch: one try block around the feature matrix and the
\* prediction, with one message for every failure
RunBatchOneExcept(filenames, dir, vocab, c) ==
    IF \/ ~vocab.defined
       \/ ~c.defined
       \/ PredictRaises(c.value,
                        getFeatureMatrix(ReadMails(dir, filenames, 1), vocab.value))
    THEN [stdout |-> ReadLines(dir, filenames, 1) \o <<NoModel>>,
          calls |-> ReadCalls(dir, filenames, 1)]
    ELSE [stdout |-> ReadLines(dir, filenames, 1)
                        \o OutputLines(filenames,
                              Predictions(c.value,
                                  getFeatureMatrix(ReadMails(dir, filenames, 1),
                                                   vocab.value))),
          calls |-> ReadCalls(dir, filenames, 1)
                        \o <<Call("getFeatureMatrix", ""), Call("clf.predict", "")>>]

\* predictSamples from the loop over filenames on
RunBatch(filenames, dir, vocab, c) ==
    IF ~vocab.defined
    THEN [stdout |-> ReadLines(dir, filenames, 1) \o <<NoVocabulary>>,
          calls |-> ReadCalls(dir, filenames, 1)]
    ELSE IF ~c.defined
    THEN [stdout |-> ReadLines(dir, filenames, 1) \o <<NoModel>>,
          calls |-> ReadCalls(dir, filenames, 1) \o <<Call("getFeatureMatrix", "")>>]
    ELSE IF PredictRaises(c.value,
                          getFeatureMatrix(ReadMails(dir, filenames, 1), vocab.value))
    THEN [stdout |-> ReadLines(dir, filenames, 1) \o <<NoModel>>,
          calls |-> ReadCalls(dir, filenames, 1)
                        \o <<Call("getFeatureMatrix", ""), Call("clf.predict", "")>>]
    ELSE [stdout |-> ReadLines(dir, filenames, 1)
                        \o OutputLines(filenames,
                              Predictions(c.value,
                                  getFeatureMatrix(ReadMails(dir, filenames, 1),
                                                   vocab.value))),
          calls |-> ReadCalls(dir, filenames, 1)
                        \o <<Call("getFeatureMatrix", ""), Call("clf.predict", "")>>]

\* a faulty variant of predictSamplesRun: the return after 'Nothing to predict.' is
\* missing
predictSamplesNoReturn(filenames, dir, vocab, c) ==
    LET r == RunBatch(filenames, dir, vocab, c)
    IN  IF filenames = <<>>
        THEN [stdout |-> <<NothingToPredict>> \o r.stdout, calls |-> r.calls]
        ELSE r

\* what a call of predictSamples prints and calls
predictSamplesRun(filenames, dir, vocab, c) ==
    IF filenames = <<>> THEN [stdout |-> <<NothingToPredict>>, calls |-> <<>>]
    ELSE RunBatch(filenames, dir, vocab, c)

\* a faulty variant of VocabularyAfter: predictSamples rebuilds the vocabulary from the
\* mails it was handed
VocabularyRebuilt(filenames, dir, vocab) ==
    IF filenames = <<>> THEN vocab
    ELSE Defined(createVocabulary(ReadMails(dir, filenames, 1), VOCAB_SIZE))

\* the global vocabulary after a call: predictSamples has no global
\* statement, it only reads vocabulary and clf, and the clean_mails and X it
\* assigns are its locals
VocabularyAfter(filenames, dir, vocab) == vocab

ModelState(c) ==
    IF ~c.defined THEN "none" ELSE IF c.value.fitted THEN "fitted" ELSE "unfitted"

\* a call of predictSamples between two cells
predictSamples ==
    /\ cell \in {"start", "split", "train", "done"} \/ (cell = "load" /\ idx = Len(corpus))
    /\ \E filenames \in SeqsUpTo(SampleIds, MaxBatch) :
        LET r == predictSamplesRun(filenames, samples, vocabulary, clf)
        IN  /\ stdout' = r.stdout
            /\ calls' = r.calls
            /\ lastCall' = [called |-> TRUE, filenames |-> filenames,
                            vocab |-> vocabulary.defined, model |-> ModelState(clf)]
            /\ vocabulary' = VocabularyAfter(filenames, samples, vocabulary)
    /\ UNCHANGED <<corpus, samples, cell, idx, clean_mails, labels, X, y, clf,
                   mailVars, stemmer, funVars>>

Next == BeginLoad \/ LoadMail \/ ModelVariables \/ Split \/ Train \/ predictSamples

\* Spec: the notebook over Corpora, predictSamples called between any two
\* cells.  SpecLoad: the cells of the notebook over every corpus of at most
\* MaxCorpus files.
Spec == Init /\ [][Next]_vars

NextLoad == BeginLoad \/ LoadMail \/ ModelVariables \/ Split \/ Train

SpecLoad == InitLoad /\ [][NextLoad]_vars

(***************************************************************************)
(* Notions the claims are stated in.                                       *)
(***************************************************************************)
NoDuplicates(l) == \A i, j \in 1..Len(l) : i # j => l[i] # l[j]

\* the distinct stems of a corpus
DistinctStems(mails) == UNION {Range(mails[i]) : i \in 1..Len(mails)}

\* the number of occurrences of w in the whole corpus
Occurrences(w, mails) ==
    LET flat == Concat(mails)
    IN  Cardinality({k \in 1..Len(flat) : flat[k] = w})

\* the place of the first occurrence of w in the corpus scan
FirstSeen(w, mails) ==
    LET flat == Concat(mails)
    IN  CHOOSE k \in 1..Len(flat) : flat[k] = w /\ \A j \in 1..(k - 1) : flat[j] # w

\* u ranks before v: more occurrences, or as many and seen first
RanksBefore(u, v, mails) ==
    \/ Occurrences(u, mails) > Occurrences(v, mails)
    \/ /\ Occurrences(u, mails) = Occurrences(v, mails)
       /\ FirstSeen(u, mails) < FirstSeen(v, mails)

\* the body the header strip is said to keep: the text after the first two
\* consecutive newlines, the entire text when there are none
BodyAsSpecified(m) ==
    LET at == PyFind(m, <<NL, NL>>)
    IN  IF at = -1 THEN m ELSE SubSeq(m, at + 3, Len(m))

(***************************************************************************)
(* The claims.                                                             *)
(***************************************************************************)
\* C1: processMail tokenizes the text after the first two consecutive
\* newlines, and the entire text when the input holds no two consecutive
\* newlines, so that every word of such an input yields a token.
C1_HeaderStrip == mpc = "out" => clean_mail = TokensOf(BodyAsSpecified(mail))

\* C5: getFeatureMatrix(mails, vocab) has shape (len(mails), len(vocab)); entry
\* [i, j] is 1 if vocab[j] occurs in mails[i] and 0 otherwise; row i is the row
\* mails[i] gets on its own; an empty mail gets an all-zero row.
C5_FeatureMatrix ==
    vpc = "out" =>
        /\ vX.shape = <<Len(vmails), Len(vvocab)>>
        /\ DOMAIN vX.data = 1..Len(vmails)
        /\ \A i \in 1..Len(vmails) :
            /\ DOMAIN vX.data[i] = 1..Len(vvocab)
            /\ \A j \in 1..Len(vvocab) :
                /\ vX.data[i][j] \in {0, 1}
                /\ vX.data[i][j] = 1 <=> vvocab[j] \in Range(vmails[i])
            /\ vX.data[i] = getFeatureMatrix(<<vmails[i]>>, vvocab).data[1]
            /\ vmails[i] = <<>> => \A j \in 1..Len(vvocab) : vX.data[i][j] = 0

\* C5 witness: a matrix with a 1 for a word that is not the first of its mail,
\* a 0, and the all-zero row of an empty mail
C5_Witness ==
    /\ vpc = "out"
    /\ Len(vvocab) = MaxCols
    /\ \E i \in 1..Len(vmails) : \E j \in 1..Len(vvocab) :
        vX.data[i][j] = 1 /\ vmails[i][1] # vvocab[j]
    /\ \E i \in 1..Len(vmails) : \E j \in 1..Len(vvocab) :
        vX.data[i][j] = 0 /\ vmails[i] # <<>>
    /\ \E i \in 1..Len(vmails) : vmails[i] = <<>>

\* C6: for size >= 0 createVocabulary returns a list without duplicates of
\* length min(size, number of distinct stems of the corpus).
C6_VocabularySize ==
    (vpc = "out" /\ vsize >= 0) =>
        /\ NoDuplicates(vvocab)
        /\ Len(vvocab) = Min(vsize, Cardinality(DistinctStems(vmails)))

\* C6 witness: a corpus with a repeated stem and more distinct stems than size
C6_Witness ==
    /\ vpc = "out"
    /\ vsize = 1
    /\ Cardinality(DistinctStems(vmails)) = 2
    /\ Len(Concat(vmails)) > 2
    /\ Len(vvocab) = 1

\* C7: the vocabulary is the first size entries of the distinct stems ordered
\* by descending number of occurrences in the whole corpus, stems with equal
\* counts in the order they were first seen; no stem left out has more
\* occurrences than a stem included.
C7_VocabularyRanking ==
    (vpc = "out" /\ vsize >= 0) =>
        /\ Range(vvocab) \subseteq DistinctStems(vmails)
        /\ Len(vvocab) = Min(vsize, Cardinality(DistinctStems(vmails)))
        /\ \A i, j \in 1..Len(vvocab) :
            i < j => RanksBefore(vvocab[i], vvocab[j], vmails)
        /\ \A w \in DistinctStems(vmails) \ Range(vvocab) :
            \A i \in 1..Len(vvocab) :
                /\ RanksBefore(vvocab[i], w, vmails)
                /\ Occurrences(w, vmails) <= Occurrences(vvocab[i], vmails)

\* C7 witness: two stems with two occurrences each, the first seen ranked
\* first, one of them repeated inside one mail
C7_Witness ==
    /\ vpc = "out"
    /\ Len(vvocab) = 2
    /\ Occurrences(vvocab[1], vmails) = 2
    /\ Occurrences(vvocab[2], vmails) = 2
    /\ Concat(vmails)[1] = vvocab[1]
    /\ \E i \in 1..Len(vmails) : vmails[i] = <<vvocab[2], vvocab[2]>>


\* the lines of the last call that name a label, and whether it printed a line
LabelKinds == {"is spam.", "is not spam."}
LabelLines == SelectSeq(stdout, LAMBDA l : l.kind \in LabelKinds)
Printed(line) == \E i \in 1..Len(stdout) : stdout[i] = line

\* the readable identifiers of a list, in its order
ReadableIds(filenames) == SelectSeq(filenames, LAMBDA id : samples[id].readable)

\* the label the trained model gives the text of one sample
OwnLabel(id) ==
    LabelLine(id, Predictions(clf.value,
                    getFeatureMatrix(<<processMail(samples[id].text)>>,
                                     vocabulary.value))[1])

\* the files the loading loop has passed that could be read, in order
RECURSIVE ReadableUpTo(_)
ReadableUpTo(n) ==
    IF n = 0 THEN <<>>
    ELSE ReadableUpTo(n - 1) \o (IF corpus[n].file.readable THEN <<n>> ELSE <<>>)

\* C2: every label line of predictSamples names the identifier whose own
\* text produced the prediction: the k-th label line is that of the k-th
\* readable identifier, and no label line names an unreadable identifier.
C2_LabelsNameTheirMessage ==
    lastCall.called =>
        LET rd == ReadableIds(lastCall.filenames)
        IN  \A k \in 1..Len(LabelLines) :
                /\ samples[LabelLines[k].id].readable
                /\ k <= Len(rd)
                /\ LabelLines[k] = OwnLabel(rd[k])

\* C3: a call with a non-empty list while no vocabulary exists prints 'No
\* vocabulary has been created.', one while a vocabulary exists and no model
\* is trained prints 'No model has been trained.'; the two differ; neither
\* call prints a label line.
C3_NotReadyReported ==
    (lastCall.called /\ lastCall.filenames # <<>>) =>
        /\ ~lastCall.vocab =>
            /\ Printed(NoVocabulary)
            /\ ~Printed(NoModel)
            /\ LabelLines = <<>>
        /\ (lastCall.vocab /\ lastCall.model # "fitted") =>
            /\ Printed(NoModel)
            /\ ~Printed(NoVocabulary)
            /\ LabelLines = <<>>
        /\ NoVocabulary # NoModel

\* C3 witness: a call with a readable file made between the cell that builds
\* the vocabulary and the cell that trains
C3_Witness ==
    /\ lastCall.called
    /\ lastCall.vocab
    /\ lastCall.model = "none"
    /\ ReadableIds(lastCall.filenames) # <<>>
    /\ Printed(NoModel)

\* C4: with the vocabulary built and the model trained, a call with a
\* non-empty list prints neither 'No vocabulary has been created.' nor 'No
\* model has been trained.', also when every identifier is unreadable.
C4_ReadyNeverNotReady ==
    (lastCall.called /\ lastCall.filenames # <<>> /\ lastCall.vocab
        /\ lastCall.model = "fitted") =>
            /\ ~Printed(NoVocabulary)
            /\ ~Printed(NoModel)

C9_LoadIsolatesFailures ==
    clean_mails.defined =>
        LET rd == ReadableUpTo(idx)
        IN  /\ Len(clean_mails.value) = Len(rd)
            /\ Len(labels.value) = Len(rd)
            /\ \A k \in 1..Len(rd) :
                /\ clean_mails.value[k] = processMail(corpus[rd[k]].file.text)
                /\ labels.value[k] = (IF corpus[rd[k]].is_spam THEN 1 ELSE 0)
            /\ cell # "load" => idx = Len(corpus)

\* C9 witness: the loop is over, and it passed an unreadable file and a
\* readable one after it
C9_Witness ==
    /\ cell = "split"
    /\ \E i, j \in 1..Len(corpus) :
        i < j /\ ~corpus[i].file.readable /\ corpus[j].file.readable
    /\ Len(clean_mails.value) < Len(corpus)
    /\ Len(clean_mails.value) > 0

\* C10: a call with an empty list prints 'Nothing to predict.' and nothing
\* else, and reads, normalizes, vectorizes and classifies nothing, in every
\* state of the pipeline.
C10_EmptyBatch ==
    (lastCall.called /\ lastCall.filenames = <<>>) =>
        /\ stdout = <<NothingToPredict>>
        /\ calls = <<>>

\* C10 witness: a call with an empty list before any vocabulary exists
C10_Witness ==
    /\ lastCall.called
    /\ lastCall.filenames = <<>>
    /\ ~lastCall.vocab
    /\ lastCall.model = "none"
    /\ stdout = <<NothingToPredict>>

\* the words the last processMail call handed to the stemmer, in order
HandedToStemmer == CandidateWords(ReSplit(Substituted(RemoveHeaders(mail))), 1)

SplitBody == SubSeq(mail, 3, Len(mail))
SplitAt == CHOOSE k \in 1..Len(SplitBody) : SplitBody[k] \notin Letters
SplitLeft == SubSeq(SplitBody, 1, SplitAt - 1)
SplitRight == SubSeq(SplitBody, SplitAt + 1, Len(SplitBody))

\* C12: for every character d written in the delimiter set and every two
\* words u and v of lower-case letters, the body u d v yields the tokens u
\* and v and not the joined token uv (u@v, an email address, set aside).
C12_SplitsOnEveryDelimiter ==
    (mpc = "out" /\ SplitBody[SplitAt] # "@") =>
        /\ InList(SplitLeft, clean_mail)
        /\ InList(SplitRight, clean_mail)
        /\ ~InList(SplitLeft \o SplitRight, clean_mail)

\* the body the substitutions of the last processMail call worked on
StrippedBody == TagStripped(RemoveHeaders(mail))

HttpaddrToken == <<"h", "t", "t", "p", "a", "d", "d", "r">>
EmailaddrToken == <<"e", "m", "a", "i", "l", "a", "d", "d", "r">>

\* a URL-like substring starts at position i of t
UrlAt(t, i) == StartsAt(t, HttpPrefix, i) \/ StartsAt(t, HttpsPrefix, i)

\* the tokens of t from position i on when every URL-like substring, from its
\* prefix up to the next whitespace, counts as the one token httpaddr; seg is
\* the text since the last URL
RECURSIVE UrlsAsOneToken(_, _, _)
UrlsAsOneToken(t, i, seg) ==
    IF i > Len(t) THEN TokensOf(seg)
    ELSE IF UrlAt(t, i)
         THEN TokensOf(seg) \o <<HttpaddrToken>>
                  \o UrlsAsOneToken(t, RunUntil(t, i, SpaceSet) + 1, <<>>)
         ELSE UrlsAsOneToken(t, i + 1, Append(seg, t[i]))

\* C13: every URL-like substring of the lower-cased, tag-stripped body
\* ("http://" or "https://" and all characters up to the next whitespace)
\* yields the single token httpaddr and nothing else, whatever it holds,
\* digits included.
C13_UrlIsOneToken ==
    mpc = "out" => clean_mail = UrlsAsOneToken(StrippedBody, 1, <<>>)

\* a run of characters without whitespace is email-like: it holds an "@"
\* with a character on each side, and no URL
EmailLike(run) ==
    /\ \E k \in 2..(Len(run) - 1) : run[k] = "@"
    /\ \A i \in 1..Len(run) : ~UrlAt(run, i)

\* the tokens of t from position i on when every email-like run counts as the
\* one token emailaddr
RECURSIVE EmailsAsOneToken(_, _)
EmailsAsOneToken(t, i) ==
    IF i > Len(t) THEN <<>>
    ELSE IF IsSpace(t[i]) THEN EmailsAsOneToken(t, i + 1)
    ELSE (IF EmailLike(SubSeq(t, i, RunUntil(t, i, SpaceSet)))
          THEN <<EmailaddrToken>>
          ELSE TokensOf(SubSeq(t, i, RunUntil(t, i, SpaceSet))))
             \o EmailsAsOneToken(t, RunUntil(t, i, SpaceSet) + 1)

\* C14: every email-like substring of the body (a maximal run of characters
\* without whitespace that holds an "@" with a character on each side and is
\* no part of a URL) yields the single token emailaddr and nothing else,
\* digits next to the "@" included.
C14_EmailIsOneToken ==
    mpc = "out" => clean_mail = EmailsAsOneToken(StrippedBody, 1)

\* C15: the chain of placeholder substitutions (numbers, URLs, email
\* addresses, "$" signs, in that order) is idempotent: applied to its own
\* output it gives that output again.
C15_PlaceholdersIdempotent ==
    mpc = "out" =>
        Placeholders(Placeholders(StrippedBody)) = Placeholders(StrippedBody)

\* C15 witness: a body in which the chain replaced a URL, a number and a "$"
\* next to each other
C15_Witness ==
    /\ mpc = "out"
    /\ mail = <<NL, NL>> \o HttpPrefix \o <<"1", "$">>
    /\ Placeholders(StrippedBody)
           = <<NL, NL>> \o HttpaddrWord \o NumberWord \o DollarWord
    /\ Placeholders(Placeholders(StrippedBody)) = Placeholders(StrippedBody)

====
